---- MODULE Spec2Model ----
(***************************************************************************)
(* A model of the PPO trajectory buffer (PPOBuffer), of the training loop  *)
(* that drives it (ppo, update, evaluate), of the clipped surrogate loss,  *)
(* of the Beta distributions' shape parameters and of the construct, bind, *)
(* use protocol of the action distributions.                               *)
(*                                                                         *)
(* Numbers.  The buffers hold float32 values.  Every number of the model   *)
(* is an exact rational <<n, d>> (d > 0, lowest terms).  The inputs are    *)
(* drawn from small integers and the discounts from {1/2, 1}, so every     *)
(* intermediate value is a dyadic rational with a numerator far below 2^24 *)
(* and float32 arithmetic computes it exactly.                             *)
(***************************************************************************)
EXTENDS Integers, Sequences, FiniteSets, TLC

VARIABLES
    \* ---- the PPOBuffer object: a record of its fields (ppo.py 38-47)
    buf,
    \* ---- the last call made on the buffer and how it ended
    call,
    \* ---- the batch the last successful get returned
    data,
    \* ---- number of state-changing buffer calls made by the free client
    nops,
    \* ---- ppo(): configuration (args) and the loop's locals
    pc, steps_per_epoch, max_ep_len, epochs, eval_episodes,
    epoch, t, ep_ret, ep_len, train_episodes, eval_steps,
    \* ---- evaluate(): locals, and the mean it reported last
    episode, et, ev_ep_ret, ev_ep_len, total_ep_return, reported,
    \* ---- observations of the rollout: how the last finish_path call of the
    \* ---- loop was decided, the segments closed in this epoch, and whether
    \* ---- the environment signalled done before the step cap
    ending, segments, early_done,
    \* ---- update(): args.train_pi_iters, args.train_v_iters, the gradient
    \* ---- steps taken by the two loops, pi_info['kl'] of the last policy
    \* ---- step, the batches the losses were computed from, and the buffer
    \* ---- as get left it
    train_pi_iters, train_v_iters, pi_i, v_i, kl, used, got,
    \* ---- observers of the loop: what the current epoch has done so far
    \* ---- (environment steps, slots stored to, slots whose advantage and
    \* ---- return a finish_path assigned, env.reset calls, gets, evaluate
    \* ---- calls, returns of the evaluation episodes), the same for the epoch
    \* ---- that has just ended, and the evaluations that have returned
    tally, last, evals_done,
    \* ---- compute_loss_pi on one sample
    ratio, clip_ratio, adv, loss_term,
    \* ---- proba_distribution of the Beta variants
    variant, raw1, raw2, shape,
    \* ---- a Distribution object (its fields) and the last call made on it
    obj, dcall

loopvars == <<pc, steps_per_epoch, max_ep_len, epochs, eval_episodes,
              epoch, t, ep_ret, ep_len, train_episodes, eval_steps,
              episode, et, ev_ep_ret, ev_ep_len, total_ep_return, reported,
              ending, segments, early_done>>

updvars == <<train_pi_iters, train_v_iters, pi_i, v_i, kl, used, got>>

ghostvars == <<tally, last, evals_done>>

lossvars == <<ratio, clip_ratio, adv, loss_term>>

betavars == <<variant, raw1, raw2, shape, obj, dcall>>

vars == <<buf, call, data, nops, loopvars, updvars, ghostvars, lossvars, betavars>>

----------------------------------------------------------------------------
(* Bounds of the model.                                                    *)

\* largest buffer capacity (size) the free client constructs
MaxSize == 3
\* state-changing calls the free client makes on one buffer
MaxOps == 6
\* largest args.steps_per_epoch
MaxSteps == 4
\* largest args.max_ep_len
MaxEpLen == 2
\* largest args.epochs
MaxEpochs == 2
\* largest args.eval_episodes
MaxEvalEpisodes == 2
\* grid of the loss inputs: ratio in 0..RatioMax quarters
RatioMax == 12
\* advantages of the loss inputs: -AdvMax..AdvMax
AdvMax == 2
\* raw head outputs of the Beta variants: 0..RawMax quarters
RawMax == 8
\* largest args.train_pi_iters and args.train_v_iters
MaxIters == 2

----------------------------------------------------------------------------
(* Exact rationals.                                                        *)

Abs(n) == IF n < 0 THEN -n ELSE n

RECURSIVE GCD(_, _)
GCD(a, b) == IF b = 0 THEN a ELSE GCD(b, a % b)

Rat(n, d) ==
    LET g == GCD(Abs(n), Abs(d))
        s == IF d < 0 THEN -1 ELSE 1
    IN  <<(s * n) \div g, (s * d) \div g>>

Int2Rat(n) == <<n, 1>>
Zero == <<0, 1>>
One == <<1, 1>>
Half == <<1, 2>>

RAdd(a, b) == Rat(a[1] * b[2] + b[1] * a[2], a[2] * b[2])
RSub(a, b) == Rat(a[1] * b[2] - b[1] * a[2], a[2] * b[2])
RMul(a, b) == Rat(a[1] * b[1], a[2] * b[2])
RDiv(a, b) == Rat(a[1] * b[2], a[2] * b[1])
RNeg(a) == <<-a[1], a[2]>>
RLe(a, b) == a[1] * b[2] <= b[1] * a[2]
RLt(a, b) == a[1] * b[2] < b[1] * a[2]
RMin(a, b) == IF RLe(a, b) THEN a ELSE b
RMax(a, b) == IF RLe(a, b) THEN b ELSE a

RECURSIVE RPow(_, _)
RPow(a, k) == IF k = 0 THEN One ELSE RMul(a, RPow(a, k - 1))

----------------------------------------------------------------------------
(* Input domains.                                                          *)

\* rewards the environment returns, value estimates of the critic
Rewards == {Zero, One}
Values == {Zero, One}
\* observations, actions and log-probabilities: one non-zero token each
\* (the arrays start as zeros, so a write is visible)
Observations == {1}
Actions == {1}
LogProbs == {-1}
\* (gamma, lam) pairs a buffer is constructed with
Discounts == {<<One, One>>, <<Half, One>>, <<Half, Half>>}

----------------------------------------------------------------------------
(* PPOBuffer.  An object is a record of its fields; a method is an          *)
(* operator from the object (self) and the arguments to the object after   *)
(* the call.  The arrays are functions on 0 .. size-1, as in the source.   *)

\* np.zeros(size)
zeros(size) == [i \in 0 .. (size - 1) |-> Zero]
zeros_tok(size) == [i \in 0 .. (size - 1) |-> 0]

\* __init__(obs_dim, act_dim, size, gamma, lam)
PPOBuffer(size, g, l) ==
    [obs_buf |-> zeros_tok(size), act_buf |-> zeros_tok(size),
     adv_buf |-> zeros(size), rew_buf |-> zeros(size), ret_buf |-> zeros(size),
     val_buf |-> zeros(size), logp_buf |-> zeros_tok(size),
     gamma |-> g, lam |-> l,
     ptr |-> 0, path_start_idx |-> 0, max_size |-> size]

\* store: assert self.ptr < self.max_size
store_assert_off(self) == self.ptr <= self.max_size
store_assert(self) == self.ptr < self.max_size

\* store: the five writes at slot ptr and ptr += 1
\* (an index outside the array leaves the function as it is)
store_ptr_stuck(self, obs, act, rew, val, logp) ==
    [self EXCEPT !.obs_buf[self.ptr] = obs, !.act_buf[self.ptr] = act,
                 !.rew_buf[self.ptr] = rew, !.val_buf[self.ptr] = val,
                 !.logp_buf[self.ptr] = logp]
store(self, obs, act, rew, val, logp) ==
    [self EXCEPT !.obs_buf[self.ptr] = obs, !.act_buf[self.ptr] = act,
                 !.rew_buf[self.ptr] = rew, !.val_buf[self.ptr] = val,
                 !.logp_buf[self.ptr] = logp,
                 !.ptr = self.ptr + 1]

\* core.discount_cumsum(x, discount): y[i] = x[i] + discount * y[i+1],
\* computed from the last element backwards
RECURSIVE discount_cumsum(_, _)
discount_cumsum(x, discount) ==
    IF Len(x) = 0 THEN <<>>
    ELSE LET rest == discount_cumsum(Tail(x), discount)
         IN  IF Len(rest) = 0 THEN <<Head(x)>>
             ELSE <<RAdd(Head(x), RMul(discount, Head(rest)))>> \o rest

\* b[path_slice] as a sequence, path_slice = slice(path_start_idx, ptr)
path_of(self, b) ==
    [i \in 1 .. (self.ptr - self.path_start_idx) |-> b[self.path_start_idx + i - 1]]

\* the indices of path_slice
path_slots(self) == {i \in DOMAIN self.adv_buf : self.path_start_idx <= i /\ i < self.ptr}

\* np.append(self.rew_buf[path_slice], last_val)
rews_of(self, last_val) == Append(path_of(self, self.rew_buf), last_val)
\* np.append(self.val_buf[path_slice], last_val)
vals_of(self, last_val) == Append(path_of(self, self.val_buf), last_val)

\* deltas = rews[:-1] + self.gamma * vals[1:] - vals[:-1]
deltas_of(self, rews, vals) ==
    [i \in 1 .. (Len(rews) - 1) |->
        RSub(RAdd(rews[i], RMul(self.gamma, vals[i + 1])), vals[i])]

\* b[path_slice] = seq
assign_path_clear(self, b, seq) ==
    [i \in DOMAIN b |->
        IF self.path_start_idx <= i /\ i < self.ptr
        THEN seq[i - self.path_start_idx + 1]
        ELSE Zero]
assign_path(self, b, seq) ==
    [i \in DOMAIN b |->
        IF self.path_start_idx <= i /\ i < self.ptr
        THEN seq[i - self.path_start_idx + 1]
        ELSE b[i]]

\* core.discount_cumsum(rews, self.gamma)[:-1]
ret_keep_bootstrap(self, rews) ==
    Tail(discount_cumsum(rews, self.gamma))
ret_of(self, rews) ==
    SubSeq(discount_cumsum(rews, self.gamma), 1, Len(rews) - 1)

\* core.discount_cumsum(deltas, self.gamma * self.lam)
adv_gamma_only(self, deltas) == discount_cumsum(deltas, self.gamma)
adv_of(self, deltas) == discount_cumsum(deltas, RMul(self.gamma, self.lam))

\* finish_path(last_val)
finish_path(self, last_val) ==
    LET rews == rews_of(self, last_val)
        vals == vals_of(self, last_val)
        deltas == deltas_of(self, rews, vals)
    IN  [self EXCEPT !.adv_buf = assign_path(self, self.adv_buf, adv_of(self, deltas)),
                     !.ret_buf = assign_path(self, self.ret_buf, ret_of(self, rews)),
                     !.path_start_idx = self.ptr]

\* get: assert self.ptr == self.max_size
get_assert(self) == self.ptr = self.max_size

\* get: the returned dict (no normalisation: ppo.py 82-83 are comments)
get_data(self) ==
    [obs |-> self.obs_buf, act |-> self.act_buf, ret |-> self.ret_buf,
     adv |-> self.adv_buf, logp |-> self.logp_buf]

\* get: self.ptr, self.path_start_idx = 0, 0
get_keep_ptr(self) == [self EXCEPT !.path_start_idx = 0]
get(self) == [self EXCEPT !.ptr = 0, !.path_start_idx = 0]

NoCall == [op |-> "none", ok |-> TRUE, args |-> <<>>]
NoData == [none |-> TRUE]
NoTally == [env |-> 0, stores |-> <<>>, fresh |-> {}, resets |-> 0, gets |-> 0,
            evals |-> 0, returns |-> <<>>]

----------------------------------------------------------------------------
(* Values of the variables a specification does not use.                   *)

NoEnding ==
    [d |-> FALSE, timeout |-> FALSE, epoch_ended |-> FALSE,
     bootstrap |-> "none", last_val |-> Zero]

LoopIdle ==
    /\ steps_per_epoch = 0 /\ max_ep_len = 0 /\ epochs = 0 /\ eval_episodes = 0
    /\ epoch = 0 /\ t = 0 /\ ep_ret = Zero /\ ep_len = 0
    /\ train_episodes = 0 /\ eval_steps = 0
    /\ episode = 0 /\ et = 0 /\ ev_ep_ret = Zero /\ ev_ep_len = 0
    /\ total_ep_return = Zero /\ reported = <<>>
    /\ ending = NoEnding /\ segments = <<>> /\ early_done = FALSE
    /\ train_pi_iters = 0 /\ train_v_iters = 0 /\ pi_i = 0 /\ v_i = 0
    /\ kl = "none" /\ used = {} /\ got = NoData
    /\ tally = NoTally /\ last = NoTally /\ evals_done = 0

LossIdle == ratio = Zero /\ clip_ratio = Zero /\ adv = Zero /\ loss_term = <<>>

\* self.distribution = None
NoDistribution == [kind |-> "None", p1 |-> Zero, p2 |-> Zero]
\* no Distribution object
NoObject == [exists |-> FALSE, distribution |-> NoDistribution, action_dim |-> 0]
NoDistCall == [op |-> "none", result |-> "ok"]

DistIdle == obj = NoObject /\ dcall = NoDistCall

BetaIdle ==
    /\ variant = "none" /\ raw1 = Zero /\ raw2 = Zero /\ shape = <<>>
    /\ DistIdle

----------------------------------------------------------------------------
(* Spec: a free client of one PPOBuffer.  It constructs the buffer and     *)
(* then calls store, finish_path and get in any order with any arguments;  *)
(* a call whose assertion fails raises AssertionError before it changes    *)
(* anything, and the client goes on.                                       *)

Init ==
    /\ \E size \in 1 .. MaxSize, gl \in Discounts : buf = PPOBuffer(size, gl[1], gl[2])
    /\ call = NoCall
    /\ data = NoData
    /\ nops = 0
    /\ pc = "client"
    /\ LoopIdle /\ LossIdle /\ BetaIdle

Store(obs, act, rew, val, logp) ==
    /\ pc = "client"
    /\ nops < MaxOps
    /\ IF store_assert(buf)
       THEN /\ buf' = store(buf, obs, act, rew, val, logp)
            /\ call' = [op |-> "store", ok |-> TRUE, args |-> <<obs, act, rew, val, logp>>]
            /\ nops' = nops + 1
       ELSE /\ call' = [op |-> "store", ok |-> FALSE, args |-> <<obs, act, rew, val, logp>>]
            /\ UNCHANGED <<buf, nops>>
    /\ UNCHANGED <<data, loopvars, updvars, ghostvars, lossvars, betavars>>

FinishPath(last_val) ==
    /\ pc = "client"
    /\ nops < MaxOps
    /\ buf' = finish_path(buf, last_val)
    /\ call' = [op |-> "finish_path", ok |-> TRUE, args |-> <<last_val>>]
    /\ nops' = nops + 1
    /\ UNCHANGED <<data, loopvars, updvars, ghostvars, lossvars, betavars>>

Get ==
    /\ pc = "client"
    /\ nops < MaxOps
    /\ IF get_assert(buf)
       THEN /\ buf' = get(buf)
            /\ data' = get_data(buf)
            /\ call' = [op |-> "get", ok |-> TRUE, args |-> <<>>]
            /\ nops' = nops + 1
       ELSE /\ call' = [op |-> "get", ok |-> FALSE, args |-> <<>>]
            /\ UNCHANGED <<buf, data, nops>>
    /\ UNCHANGED <<loopvars, updvars, ghostvars, lossvars, betavars>>

Next ==
    \/ \E obs \in Observations, act \in Actions, rew \in Rewards,
          val \in Values, logp \in LogProbs : Store(obs, act, rew, val, logp)
    \/ \E last_val \in Values : FinishPath(last_val)
    \/ Get

Spec == Init /\ [][Next]_vars

----------------------------------------------------------------------------
(* Properties of the buffer's methods, checked under Spec.                 *)

\* sum of f[lo] .. f[hi]
RECURSIVE RSum(_, _, _)
RSum(f, lo, hi) == IF lo > hi THEN Zero ELSE RAdd(f[lo], RSum(f, lo + 1, hi))

\* C1: a store call made with ptr < max_size succeeds, writes its five
\* arguments at slot ptr, leaves every other slot, adv_buf, ret_buf and
\* path_start_idx as they were and advances ptr by exactly one (so the first
\* N calls on an empty buffer of capacity N succeed); a store call made with
\* ptr = max_size fails and leaves the whole buffer unchanged.
C1_StoreContract ==
    [][call'.op = "store" =>
        IF buf.ptr < buf.max_size
        THEN /\ call'.ok
             /\ buf'.ptr = buf.ptr + 1
             /\ buf'.path_start_idx = buf.path_start_idx
             /\ buf'.obs_buf[buf.ptr] = call'.args[1]
             /\ buf'.act_buf[buf.ptr] = call'.args[2]
             /\ buf'.rew_buf[buf.ptr] = call'.args[3]
             /\ buf'.val_buf[buf.ptr] = call'.args[4]
             /\ buf'.logp_buf[buf.ptr] = call'.args[5]
             /\ buf'.adv_buf = buf.adv_buf
             /\ buf'.ret_buf = buf.ret_buf
             /\ \A i \in (0 .. (buf.max_size - 1)) \ {buf.ptr} :
                    /\ buf'.obs_buf[i] = buf.obs_buf[i]
                    /\ buf'.act_buf[i] = buf.act_buf[i]
                    /\ buf'.rew_buf[i] = buf.rew_buf[i]
                    /\ buf'.val_buf[i] = buf.val_buf[i]
                    /\ buf'.logp_buf[i] = buf.logp_buf[i]
        ELSE /\ ~call'.ok
             /\ buf' = buf]_vars

\* C1 witness: a buffer of capacity 3 took three stores and refused the next.
C1_Witness ==
    /\ call.op = "store" /\ ~call.ok
    /\ buf.max_size = 3 /\ buf.ptr = 3
    /\ \A i \in 0 .. 2 : buf.obs_buf[i] = 1

C3_PointerOrder ==
    /\ 0 <= buf.path_start_idx
    /\ buf.path_start_idx <= buf.ptr
    /\ buf.ptr <= buf.max_size

\* C3 witness: a full buffer with an open segment that starts after slot 0,
\* just after a store that failed.
C3_Witness ==
    /\ call.op = "store" /\ ~call.ok
    /\ buf.ptr = buf.max_size
    /\ 0 < buf.path_start_idx /\ buf.path_start_idx < buf.ptr

\* delta[j] of the open segment of b, closed with bootstrap value last_val
GAE_delta(b, last_val, j) ==
    LET s == b.path_start_idx
        T == b.ptr - b.path_start_idx
        next_val == IF j + 1 < T THEN b.val_buf[s + j + 1] ELSE last_val
    IN  RSub(RAdd(b.rew_buf[s + j], RMul(b.gamma, next_val)), b.val_buf[s + j])

\* sum over k = 0 .. T-tt-1 of (gamma*lam)^k * delta[tt+k]
GAE_closed(b, last_val, tt) ==
    LET T == b.ptr - b.path_start_idx
    IN  RSum([k \in 0 .. (T - tt - 1) |->
                RMul(RPow(RMul(b.gamma, b.lam), k), GAE_delta(b, last_val, tt + k))],
             0, T - tt - 1)

\* C4: finish_path(last_val) on the open segment [s, p) sets adv_buf[s+t]
\* to the sum over k of (gamma*lam)^k * delta[t+k] for every t in 0..T-1;
\* with gamma = lam = 1, a one-step segment with reward 1, value 0 and
\* last_val 0 gets advantage 1.
C4_GAE ==
    [][call'.op = "finish_path" =>
        LET s == buf.path_start_idx
            T == buf.ptr - buf.path_start_idx
            last_val == call'.args[1]
        IN  /\ \A tt \in 0 .. (T - 1) :
                   buf'.adv_buf[s + tt] = GAE_closed(buf, last_val, tt)
            /\ (/\ T = 1 /\ buf.gamma = One /\ buf.lam = One
                /\ buf.rew_buf[s] = One /\ buf.val_buf[s] = Zero
                /\ last_val = Zero)
               => buf'.adv_buf[s] = One]_vars

\* C4 witness: a three-step segment [0, 3) closed with gamma = lam = 1/2,
\* bootstrap value 1 and a non-zero first advantage.
C4_Witness ==
    /\ call.op = "finish_path" /\ call.args = <<One>>
    /\ nops = 4 /\ buf.ptr = 3 /\ buf.path_start_idx = 3
    /\ buf.gamma = Half /\ buf.lam = Half
    /\ buf.rew_buf[2] = One /\ buf.val_buf[1] = One
    /\ buf.adv_buf[0] # Zero

\* y[i] of the backward recurrence y[T] = last_val, y[i] = rew[s+i] + gamma*y[i+1]
RECURSIVE RTG_recurrence(_, _, _)
RTG_recurrence(b, last_val, i) ==
    IF i >= b.ptr - b.path_start_idx THEN last_val
    ELSE RAdd(b.rew_buf[b.path_start_idx + i],
              RMul(b.gamma, RTG_recurrence(b, last_val, i + 1)))

\* sum over k = 0 .. T-tt-1 of gamma^k * rew[s+tt+k], plus gamma^(T-tt) * last_val
RTG_closed(b, last_val, tt) ==
    LET s == b.path_start_idx
        T == b.ptr - b.path_start_idx
    IN  RAdd(RSum([k \in 0 .. (T - tt - 1) |->
                     RMul(RPow(b.gamma, k), b.rew_buf[s + tt + k])],
                  0, T - tt - 1),
             RMul(RPow(b.gamma, T - tt), last_val))

\* C5: finish_path(last_val) on the open segment [s, p) sets ret_buf[s+t]
\* to y[t] of the backward recurrence, which equals the discounted sum of
\* the remaining rewards plus gamma^(T-t) * last_val; y[T] is written
\* nowhere (ret_buf keeps its size and its slots outside [s, p)); rewards
\* [1,1,1] with discount 1/2 and last_val 0 give [7/4, 3/2, 1].
C5_RewardsToGo ==
    [][call'.op = "finish_path" =>
        LET s == buf.path_start_idx
            T == buf.ptr - buf.path_start_idx
            last_val == call'.args[1]
        IN  /\ \A tt \in 0 .. (T - 1) :
                   /\ buf'.ret_buf[s + tt] = RTG_recurrence(buf, last_val, tt)
                   /\ buf'.ret_buf[s + tt] = RTG_closed(buf, last_val, tt)
            /\ DOMAIN buf'.ret_buf = DOMAIN buf.ret_buf
            /\ \A i \in DOMAIN buf.ret_buf :
                   (i < s \/ i >= buf.ptr) => buf'.ret_buf[i] = buf.ret_buf[i]
            /\ (/\ T = 3 /\ buf.gamma = Half /\ last_val = Zero
                /\ \A j \in 0 .. 2 : buf.rew_buf[s + j] = One)
               => /\ buf'.ret_buf[s] = <<7, 4>>
                  /\ buf'.ret_buf[s + 1] = <<3, 2>>
                  /\ buf'.ret_buf[s + 2] = One]_vars

\* C5 witness: rewards [1,1,1] closed with discount 1/2 and last_val 0.
C5_Witness ==
    /\ call.op = "finish_path" /\ call.args = <<Zero>>
    /\ nops = 4 /\ buf.ptr = 3 /\ buf.path_start_idx = 3
    /\ buf.gamma = Half
    /\ \A j \in 0 .. 2 : buf.rew_buf[j] = One
    /\ buf.ret_buf = [i \in 0 .. 2 |-> IF i = 0 THEN <<7, 4>> ELSE IF i = 1 THEN <<3, 2>> ELSE One]

\* C14: finish_path sets path_start_idx to the current ptr and leaves ptr as
\* it is; it leaves obs_buf, act_buf, rew_buf, val_buf and logp_buf as they
\* are; and it changes adv_buf and ret_buf at no index outside the segment
\* [old path_start_idx, ptr), so the advantages and returns of the segments
\* finished before are kept.
C14_FinishPathFrame ==
    [][call'.op = "finish_path" =>
        /\ buf'.path_start_idx = buf.ptr
        /\ buf'.ptr = buf.ptr
        /\ buf'.obs_buf = buf.obs_buf
        /\ buf'.act_buf = buf.act_buf
        /\ buf'.rew_buf = buf.rew_buf
        /\ buf'.val_buf = buf.val_buf
        /\ buf'.logp_buf = buf.logp_buf
        /\ DOMAIN buf'.adv_buf = DOMAIN buf.adv_buf
        /\ DOMAIN buf'.ret_buf = DOMAIN buf.ret_buf
        /\ \A i \in 0 .. (buf.max_size - 1) :
               (i < buf.path_start_idx \/ i >= buf.ptr) =>
                   /\ buf'.adv_buf[i] = buf.adv_buf[i]
                   /\ buf'.ret_buf[i] = buf.ret_buf[i]
        /\ buf'.max_size = buf.max_size
        /\ buf'.gamma = buf.gamma /\ buf'.lam = buf.lam]_vars

\* C14 witness: store, finish_path(1), store, finish_path(0) with rewards and
\* values 0 and gamma = lam = 1/2: the second finish_path closed [1, 2) and
\* slot 0 still holds the advantage and the return 1/2 of the first segment.
C14_Witness ==
    /\ call.op = "finish_path" /\ call.args = <<Zero>>
    /\ nops = 4 /\ buf.ptr = 2 /\ buf.path_start_idx = 2
    /\ buf.gamma = Half /\ buf.lam = Half
    /\ \A j \in 0 .. 1 : buf.rew_buf[j] = Zero /\ buf.val_buf[j] = Zero
    /\ buf.adv_buf[0] = Half /\ buf.ret_buf[0] = Half
    /\ buf.adv_buf[1] = Zero /\ buf.ret_buf[1] = Zero

----------------------------------------------------------------------------
(* SpecTrain: ppo(), lines 126-248.  The environment and the Actor-Critic  *)
(* are collaborators: every env.step returns any reward of TrainRewards    *)
(* and any done flag, every ac.step any value of TrainValues.  The control *)
(* flow of the loop reads the done flag and the counters only, never a     *)
(* reward or a value, so one reward and one value are enough to drive it.  *)
(* An exception ends the run: pc names it.                                 *)

TrainRewards == {One}
TrainValues == {One}
TrainDiscounts == {<<Half, Half>>}

\* timeout = ep_len == args.max_ep_len
timeout_late(len) == len = max_ep_len + 1
timeout_of(len) == len = max_ep_len

\* terminal = d or timeout
terminal_ignores_timeout(d, timeout) == d
terminal_of(d, timeout) == d \/ timeout

\* epoch_ended = t==local_steps_per_epoch-1
epoch_ended_never(tt) == FALSE
epoch_ended_of(tt) == tt = steps_per_epoch - 1

\* for t in range(local_steps_per_epoch): iteration tt was the last one
rollout_one_more(tt) == tt = steps_per_epoch
rollout_done(tt) == tt + 1 = steps_per_epoch

\* if timeout or epoch_ended: _, v, _ = ac.step(...)  else: v = 0
bootstrap_from_critic(d, timeout, epoch_ended) == timeout \/ epoch_ended

\* ppo, lines 126-202: construction of the buffer and the loop's locals
\* args.train_pi_iters and args.train_v_iters: no step or MaxIters steps
Iters == {0, MaxIters}

TrainInit ==
    /\ \E spe \in 1 .. MaxSteps, mel \in 1 .. MaxEpLen, ne \in 1 .. MaxEpochs,
          ee \in 0 .. MaxEvalEpisodes, gl \in TrainDiscounts,
          npi \in Iters, nv \in Iters :
          /\ train_pi_iters = npi
          /\ train_v_iters = nv
          /\ steps_per_epoch = spe
          /\ max_ep_len = mel
          /\ epochs = ne
          /\ eval_episodes = ee
          /\ buf = PPOBuffer(spe, gl[1], gl[2])
    /\ call = NoCall
    /\ data = NoData
    /\ nops = 0
    /\ pc = "rollout"
    /\ epoch = 0 /\ t = 0
    /\ ep_ret = Zero /\ ep_len = 0
    /\ eval_steps = 1 /\ train_episodes = 1
    /\ episode = 0 /\ et = 0 /\ ev_ep_ret = Zero /\ ev_ep_len = 0
    /\ total_ep_return = Zero /\ reported = <<>>
    /\ ending = NoEnding /\ segments = <<>> /\ early_done = FALSE
    /\ pi_i = 0 /\ v_i = 0 /\ kl = "none" /\ used = {} /\ got = NoData
    /\ tally = NoTally /\ last = NoTally /\ evals_done = 0
    /\ LossIdle /\ BetaIdle

\* one iteration of `for t in range(local_steps_per_epoch)`, lines 208-235:
\* (a, v, logp) from ac.step, (r, d) from env.step, o the current
\* observation, v_boot the value ac.step gives at the cutoff observation.
\* reported and last describe the epoch boundary just passed and are
\* dropped by the first step after it.
RolloutStep(o, a, v, logp, r, d, v_boot) ==
    /\ pc = "rollout"
    /\ LET ep_ret1 == RAdd(ep_ret, r)
           ep_len1 == ep_len + 1
           timeout == timeout_of(ep_len1)
           terminal == terminal_of(d, timeout)
           epoch_ended == epoch_ended_of(t)
           from_critic == bootstrap_from_critic(d, timeout, epoch_ended)
           last_val == IF from_critic THEN v_boot ELSE Zero
           stored == store(buf, o, a, r, v, logp)
       IN  IF ~store_assert(buf)
           THEN /\ pc' = "AssertionError"
                /\ call' = [op |-> "store", ok |-> FALSE, args |-> <<o, a, r, v, logp>>]
                /\ ep_ret' = ep_ret1
                /\ ep_len' = ep_len1
                /\ tally' = [tally EXCEPT !.env = @ + 1]
                /\ UNCHANGED <<buf, t, train_episodes, ending, segments, early_done>>
           ELSE /\ early_done' = (early_done \/ (d /\ ~timeout))
                /\ tally' = [tally EXCEPT
                                !.env = @ + 1,
                                !.stores = Append(@, buf.ptr),
                                !.fresh = IF terminal \/ epoch_ended
                                          THEN @ \cup path_slots(stored) ELSE @,
                                !.resets = IF terminal \/ epoch_ended
                                           THEN @ + 1 ELSE @]
                /\ IF terminal \/ epoch_ended
                   THEN /\ buf' = finish_path(stored, last_val)
                        /\ call' = [op |-> "finish_path", ok |-> TRUE, args |-> <<last_val>>]
                        /\ ending' = [d |-> d, timeout |-> timeout,
                                      epoch_ended |-> epoch_ended,
                                      bootstrap |-> IF from_critic THEN "critic" ELSE "zero",
                                      last_val |-> last_val]
                        /\ segments' = Append(segments, <<stored.path_start_idx, stored.ptr>>)
                        /\ train_episodes' = train_episodes + 1
                        /\ ep_ret' = Zero
                        /\ ep_len' = 0
                   ELSE /\ buf' = stored
                        /\ call' = [op |-> "store", ok |-> TRUE, args |-> <<o, a, r, v, logp>>]
                        /\ ep_ret' = ep_ret1
                        /\ ep_len' = ep_len1
                        /\ UNCHANGED <<train_episodes, ending, segments>>
                /\ IF rollout_done(t)
                   THEN pc' = "update" /\ t' = t
                   ELSE pc' = "rollout" /\ t' = t + 1
    /\ reported' = <<>>
    /\ last' = NoTally
    /\ UNCHANGED <<data, nops, steps_per_epoch, max_ep_len, epochs, eval_episodes,
                   epoch, eval_steps, episode, et, ev_ep_ret, ev_ep_len,
                   total_ep_return, updvars, evals_done, lossvars, betavars>>

\* approx_kl of a policy step against args.target_kl
KLs == {"below_target", "above_target"}

\* the batch a loss computation reads: data holds torch.as_tensor views of
\* the buffer's arrays (same dtype, so no copy), so it reads the arrays as
\* they are now
batch_read(self) == get_data(self)

\* for i in range(args.train_pi_iters): the loop goes on (no test of kl)
pi_continue_early_stop(i, k) == i < train_pi_iters /\ k # "above_target"
pi_continue(i, k) == i < train_pi_iters

\* for i in range(args.train_v_iters): the loop goes on
v_continue(i) == i < train_v_iters

\* update(), lines 177-181: data = buf.get() and the two old losses
Update ==
    /\ pc = "update"
    /\ IF get_assert(buf)
       THEN /\ data' = get_data(buf)
            /\ buf' = get(buf)
            /\ got' = get(buf)
            /\ used' = {batch_read(get(buf))}
            /\ call' = [op |-> "get", ok |-> TRUE, args |-> <<>>]
            /\ pc' = "train_pi"
            /\ pi_i' = 0 /\ v_i' = 0
            /\ tally' = [tally EXCEPT !.gets = @ + 1]
       ELSE /\ pc' = "AssertionError"
            /\ call' = [op |-> "get", ok |-> FALSE, args |-> <<>>]
            /\ UNCHANGED <<buf, data, got, used, pi_i, v_i, tally>>
    /\ UNCHANGED <<nops, steps_per_epoch, max_ep_len, epochs, eval_episodes,
                   epoch, t, ep_ret, ep_len, train_episodes, eval_steps, reported,
                   episode, et, ev_ep_ret, ev_ep_len, total_ep_return,
                   ending, segments, early_done, train_pi_iters, train_v_iters, kl,
                   last, evals_done, lossvars, betavars>>

UpdateFrame ==
    UNCHANGED <<buf, call, data, nops, steps_per_epoch, max_ep_len, epochs,
                eval_episodes, epoch, t, ep_ret, ep_len, train_episodes, eval_steps,
                reported, ending, segments, early_done, train_pi_iters, train_v_iters,
                got, last, evals_done, lossvars, betavars>>

\* update(), lines 184-188: one policy gradient step; approx_kl is what
\* compute_loss_pi reports for it
PiStep(approx_kl) ==
    /\ pc = "train_pi"
    /\ pi_continue(pi_i, kl)
    /\ used' = used \cup {batch_read(buf)}
    /\ kl' = approx_kl
    /\ pi_i' = pi_i + 1
    /\ UNCHANGED <<pc, v_i, episode, et, ev_ep_ret, ev_ep_len, total_ep_return, tally>>
    /\ UpdateFrame

\* update(), line 184 to 193: the policy loop ends, the value loop starts
PiLoopExit ==
    /\ pc = "train_pi"
    /\ ~pi_continue(pi_i, kl)
    /\ pc' = "train_v"
    /\ UNCHANGED <<pi_i, v_i, kl, used, episode, et, ev_ep_ret, ev_ep_len,
                   total_ep_return, tally>>
    /\ UpdateFrame

\* update(), lines 193-197: one value gradient step
VStep ==
    /\ pc = "train_v"
    /\ v_continue(v_i)
    /\ used' = used \cup {batch_read(buf)}
    /\ v_i' = v_i + 1
    /\ UNCHANGED <<pc, pi_i, kl, episode, et, ev_ep_ret, ev_ep_len, total_ep_return,
                   tally>>
    /\ UpdateFrame

\* update() returns (its locals data and pi_info are gone), and
\* evaluate is called (ppo line 247) up to its loop (lines 90-93)
VLoopExit ==
    /\ pc = "train_v"
    /\ ~v_continue(v_i)
    /\ pc' = "evaluate"
    /\ kl' = "none"
    /\ episode' = 0 /\ et' = 0
    /\ ev_ep_ret' = Zero /\ ev_ep_len' = 0
    /\ total_ep_return' = Zero
    /\ tally' = [tally EXCEPT !.evals = @ + 1]
    /\ data' = NoData /\ got' = NoData /\ used' = {}
    /\ UNCHANGED <<pi_i, v_i>>
    /\ UNCHANGED <<buf, call, nops, steps_per_epoch, max_ep_len, epochs,
                   eval_episodes, epoch, t, ep_ret, ep_len, train_episodes, eval_steps,
                   reported, ending, segments, early_done, train_pi_iters, train_v_iters,
                   last, evals_done, lossvars, betavars>>

\* for episode in range(args.eval_episodes): the loop goes on
eval_one_more(ep) == ep <= eval_episodes
eval_continue(ep) == ep < eval_episodes

\* evaluate: one iteration of `for t in range(args.max_ep_len)`, lines 95-120
EvalStep(r, d) ==
    /\ pc = "evaluate"
    /\ eval_continue(episode)
    /\ et < max_ep_len
    /\ LET ep_ret1 == RAdd(ev_ep_ret, r)
           ep_len1 == ev_ep_len + 1
           timeout == timeout_of(ep_len1)
           terminal == terminal_of(d, timeout)
       IN  IF terminal
           THEN /\ total_ep_return' = RAdd(total_ep_return, ep_ret1)
                /\ tally' = [tally EXCEPT !.returns = Append(@, ep_ret1),
                                           !.resets = @ + 1]
                /\ ev_ep_ret' = Zero
                /\ ev_ep_len' = 0
                /\ episode' = episode + 1
                /\ et' = 0
           ELSE /\ ev_ep_ret' = ep_ret1
                /\ ev_ep_len' = ep_len1
                /\ IF et + 1 = max_ep_len
                   THEN episode' = episode + 1 /\ et' = 0
                   ELSE episode' = episode /\ et' = et + 1
                /\ UNCHANGED <<total_ep_return, tally>>
    /\ UNCHANGED <<buf, call, data, nops, pc, steps_per_epoch, max_ep_len, epochs,
                   eval_episodes, epoch, t, ep_ret, ep_len, train_episodes, eval_steps,
                   reported, ending, segments, early_done, updvars, last, evals_done,
                   lossvars, betavars>>

\* evaluate, lines 122-124, and the rest of the epoch, lines 247-248 and 206
EvalReturn ==
    /\ pc = "evaluate"
    /\ ~eval_continue(episode)
    /\ IF eval_episodes = 0
       THEN /\ pc' = "ZeroDivisionError"
            /\ UNCHANGED <<reported, ep_ret, ep_len, eval_steps, epoch, t, segments,
                           ghostvars>>
       ELSE /\ reported' = RDiv(total_ep_return, Int2Rat(eval_episodes))
            /\ ep_ret' = ev_ep_ret
            /\ ep_len' = ev_ep_len
            /\ eval_steps' = eval_steps + 1
            /\ epoch' = epoch + 1
            /\ t' = 0
            /\ segments' = <<>>
            /\ last' = tally
            /\ tally' = NoTally
            /\ evals_done' = evals_done + 1
            /\ pc' = IF epoch + 1 = epochs THEN "done" ELSE "rollout"
    /\ UNCHANGED <<buf, call, data, nops, steps_per_epoch, max_ep_len, epochs,
                   eval_episodes, train_episodes, episode, et, ev_ep_ret, ev_ep_len,
                   total_ep_return, ending, early_done, updvars, lossvars, betavars>>

TrainNext ==
    \/ \E o \in Observations, a \in Actions, v \in TrainValues, logp \in LogProbs,
          r \in TrainRewards, d \in BOOLEAN, v_boot \in TrainValues :
          RolloutStep(o, a, v, logp, r, d, v_boot)
    \/ Update
    \/ \E approx_kl \in KLs : PiStep(approx_kl)
    \/ PiLoopExit
    \/ VStep
    \/ VLoopExit
    \/ \E r \in TrainRewards, d \in BOOLEAN : EvalStep(r, d)
    \/ EvalReturn

SpecTrain == TrainInit /\ [][TrainNext]_vars

----------------------------------------------------------------------------
(* Properties of the training loop, checked under SpecTrain.               *)

\* C6: whenever the loop calls finish_path for an episode that ended by a
\* natural terminal (done signalled, step cap not reached) the bootstrap
\* value is the literal 0, also on the last step of the epoch; the critic's
\* estimate is passed only for a time-limit cutoff or for an epoch-boundary
\* cutoff of an episode that had not finished.
C6_NaturalTerminalBootstrapsZero ==
    ending.bootstrap # "none" =>
        /\ (ending.d /\ ~ending.timeout) =>
               (ending.bootstrap = "zero" /\ ending.last_val = Zero)
        /\ ending.bootstrap = "critic" =>
               (ending.timeout \/ (ending.epoch_ended /\ ~ending.d))

\* C7: the loop never fails a buffer assertion: no call on the buffer has
\* failed, every rollout step finds room (ptr < max_size), and update finds
\* the buffer exactly full (ptr = max_size).
C7_NoPreconditionViolation ==
    /\ pc # "AssertionError"
    /\ call.ok
    /\ pc = "rollout" => buf.ptr < buf.max_size
    /\ pc = "update" => buf.ptr = buf.max_size

\* C7 witness: the get of the second epoch succeeded on a buffer of two or
\* more slots, in a run with an early done and a step cap below the epoch.
C7_Witness ==
    /\ pc = "evaluate" /\ epoch = 1
    /\ call.op = "get" /\ call.ok
    /\ steps_per_epoch >= 3 /\ max_ep_len = 2
    /\ early_done

\* C8: if the environment never signals done before max_ep_len steps and
\* steps_per_epoch = 2*max_ep_len, the first epoch closes exactly the two
\* segments [0, max_ep_len) and [max_ep_len, 2*max_ep_len), the buffer is
\* full when update starts, and its get succeeds.
C8_TwoSegmentsPerEpoch ==
    (epoch = 0 /\ ~early_done /\ steps_per_epoch = 2 * max_ep_len) =>
        /\ pc = "update" =>
               /\ segments = <<<<0, max_ep_len>>, <<max_ep_len, 2 * max_ep_len>>>>
               /\ buf.ptr = buf.max_size
               /\ buf.path_start_idx = buf.max_size
        /\ pc = "evaluate" =>
               /\ segments = <<<<0, max_ep_len>>, <<max_ep_len, 2 * max_ep_len>>>>
               /\ call.op = "get" /\ call.ok

\* C8 witness: max_ep_len = 2, steps_per_epoch = 4, no early done, and the
\* batch of the first epoch has been retrieved.
C8_Witness ==
    /\ pc = "evaluate" /\ epoch = 0 /\ ~early_done
    /\ max_ep_len = 2 /\ steps_per_epoch = 4
    /\ call.op = "get" /\ call.ok
    /\ Len(segments) = 2

\* C12: every update() takes exactly train_pi_iters policy gradient steps
\* and then exactly train_v_iters value gradient steps, whatever approx_kl
\* is against target_kl; no value step comes before the last policy step;
\* every loss is computed from the one batch the get at the start returned;
\* and from that get to the last step of update the buffer is as get left
\* it.
C12_UpdateSteps ==
    /\ pc = "train_pi" =>
           /\ pi_i <= train_pi_iters /\ v_i = 0
           /\ call.op = "get" /\ call.ok
           /\ used = {data} /\ buf = got
    /\ pc = "train_v" =>
           /\ pi_i = train_pi_iters /\ v_i <= train_v_iters
           /\ call.op = "get" /\ call.ok
           /\ used = {data} /\ buf = got
    /\ pc = "evaluate" =>
           /\ pi_i = train_pi_iters /\ v_i = train_v_iters
           /\ call.op = "get" /\ call.ok

\* C12 witness: two policy steps, the last one with approx_kl above the
\* target, and then two value steps have been taken.
C12_Witness ==
    /\ pc = "train_v" /\ kl = "above_target"
    /\ train_pi_iters = 2 /\ pi_i = 2
    /\ train_v_iters = 2 /\ v_i = 2

\* the slots n stores in a row write, starting from an empty buffer
Slots(n) == [i \in 1 .. n |-> i - 1]

C15_FullFreshBatch ==
    pc = "update" =>
        /\ buf.ptr = buf.max_size /\ buf.path_start_idx = buf.max_size
        /\ tally.stores = Slots(buf.max_size)
        /\ Len(segments) >= 1
        /\ segments[1][1] = 0
        /\ segments[Len(segments)][2] = buf.max_size
        /\ \A k \in 1 .. Len(segments) : segments[k][1] < segments[k][2]
        /\ \A k \in 1 .. (Len(segments) - 1) : segments[k][2] = segments[k + 1][1]
        /\ \A i \in 0 .. (buf.max_size - 1) :
               Cardinality({k \in 1 .. Len(segments) :
                               segments[k][1] <= i /\ i < segments[k][2]}) = 1
        /\ tally.fresh = 0 .. (buf.max_size - 1)

\* C15 witness: the second epoch's get is about to be called on a buffer of
\* four slots that the epoch filled in more than one segment.
C15_Witness ==
    /\ pc = "update" /\ epoch = 1
    /\ buf.max_size = 4 /\ buf.ptr = 4
    /\ Len(segments) >= 2
    /\ tally.fresh = 0 .. 3

\* C16: with max_ep_len >= 1, ep_len stays within 0 .. max_ep_len throughout
\* training, in the rollout and in the evaluation, also right after its
\* increment; after every finish_path call and at the end of every
\* evaluation ep_len is 0, ep_ret is 0 and the environment has been reset
\* (one reset for every closed segment and for every evaluation episode);
\* every rollout phase starts with ep_len = 0; and every closed segment has
\* between 1 and max_ep_len steps.
C16_EpisodeLength ==
    max_ep_len >= 1 =>
        /\ 0 <= ep_len /\ ep_len <= max_ep_len
        /\ 0 <= ev_ep_len /\ ev_ep_len <= max_ep_len
        /\ pc = "rollout" => ep_len + 1 <= max_ep_len
        /\ (pc = "evaluate" /\ eval_continue(episode)) => ev_ep_len + 1 <= max_ep_len
        /\ call.op = "finish_path" => ep_len = 0 /\ ep_ret = Zero
        /\ tally.resets = Len(segments) + Len(tally.returns)
        /\ (pc = "evaluate" /\ ~eval_continue(episode)) =>
               ev_ep_len = 0 /\ ev_ep_ret = Zero
        /\ (pc \in {"rollout", "done"} /\ tally.env = 0) =>
               ep_len = 0 /\ ep_ret = Zero
        /\ \A k \in 1 .. Len(segments) :
               /\ 1 <= segments[k][2] - segments[k][1]
               /\ segments[k][2] - segments[k][1] <= max_ep_len

\* C16 witness: in the second epoch, after an evaluation, an episode ran
\* into the step limit of 2 without a done flag and was closed and reset.
C16_Witness ==
    /\ pc = "rollout" /\ epoch = 1 /\ max_ep_len = 2
    /\ call.op = "finish_path" /\ ending.timeout /\ ~ending.d
    /\ ep_len = 0 /\ ep_ret = Zero
    /\ Len(segments) = 1 /\ segments[1] = <<0, 2>>
    /\ tally.resets = 1

----------------------------------------------------------------------------
(* SpecLoss: compute_loss_pi on one sample, lines 153-155.  ratio is       *)
(* exp(logp - logp_old), so it is never negative; the inputs lie on a grid *)
(* of quarters.                                                            *)

Quarter(k) == Rat(k, 4)

Ratios == {Quarter(k) : k \in 0 .. RatioMax}
\* args.clip_ratio in [0, 1)
ClipRatios == {Quarter(k) : k \in 0 .. 3}
Advantages == {Int2Rat(n) : n \in (-AdvMax) .. AdvMax}

\* torch.clamp(x, lo, hi)
clamp_no_upper(x, lo, hi) == RMax(x, lo)
clamp(x, lo, hi) == RMin(RMax(x, lo), hi)

\* clip_adv = torch.clamp(ratio, 1-args.clip_ratio, 1+args.clip_ratio) * adv
clip_adv_of(r, a, c) == RMul(clamp(r, RSub(One, c), RAdd(One, c)), a)

\* -(torch.min(ratio * adv, clip_adv)), the term whose mean is loss_pi
loss_pi_term(r, a, c) == RNeg(RMin(RMul(r, a), clip_adv_of(r, a, c)))

LossInit ==
    /\ ratio \in Ratios
    /\ clip_ratio \in ClipRatios
    /\ adv \in Advantages
    /\ loss_term = <<>>
    /\ pc = "loss"
    /\ buf = <<>> /\ call = NoCall /\ data = NoData /\ nops = 0
    /\ LoopIdle /\ BetaIdle

ComputeLossPi ==
    /\ pc = "loss"
    /\ loss_term' = loss_pi_term(ratio, adv, clip_ratio)
    /\ pc' = "loss_done"
    /\ UNCHANGED <<buf, call, data, nops, steps_per_epoch, max_ep_len, epochs,
                   eval_episodes, epoch, t, ep_ret, ep_len, train_episodes, eval_steps,
                   episode, et, ev_ep_ret, ev_ep_len, total_ep_return, reported,
                   ending, segments, early_done, updvars, ghostvars, ratio, clip_ratio, adv,
                   betavars>>

LossNext == ComputeLossPi

SpecLoss == LossInit /\ [][LossNext]_vars

\* C9 as stated: the term is at least -(1+clip_ratio)*adv when adv > 0 and
\* at most -(1-clip_ratio)*adv when adv < 0.
C9_AsStated ==
    pc = "loss_done" =>
        /\ RLt(Zero, adv) =>
               RLe(RNeg(RMul(RAdd(One, clip_ratio), adv)), loss_term)
        /\ RLt(adv, Zero) =>
               RLe(loss_term, RNeg(RMul(RSub(One, clip_ratio), adv)))

\* C9 (amended): the term is at least -(1+clip_ratio)*adv when adv > 0, and
\* at least -(1-clip_ratio)*adv when adv < 0 (a lower bound in both cases;
\* for adv < 0 the term grows with ratio without an upper bound).
C9_ClipLowerBounds ==
    pc = "loss_done" =>
        /\ RLt(Zero, adv) =>
               RLe(RNeg(RMul(RAdd(One, clip_ratio), adv)), loss_term)
        /\ RLt(adv, Zero) =>
               RLe(RNeg(RMul(RSub(One, clip_ratio), adv)), loss_term)

\* C9 witness: a negative advantage and a ratio above 1+clip_ratio, where
\* the term lies strictly above -(1-clip_ratio)*adv.
C9_Witness ==
    /\ pc = "loss_done"
    /\ RLt(adv, Zero)
    /\ RLt(RAdd(One, clip_ratio), ratio)
    /\ RLt(RNeg(RMul(RSub(One, clip_ratio), adv)), loss_term)

----------------------------------------------------------------------------
(* SpecBeta: proba_distribution of BetaDistribution (lines 142-153) and of *)
(* BetaDistributionReparam (lines 224-238) on one action dimension.  The   *)
(* raw parameters are what the heads of proba_distribution_net produce:    *)
(* Softplus outputs (>= 0 in float32) for alpha, beta and k, a Sigmoid     *)
(* output in (0, 1) for u.                                                 *)

SoftplusOutputs == {Quarter(k) : k \in 0 .. RawMax}
SigmoidOutputs == {Quarter(k) : k \in 1 .. 3}

\* BetaDistribution.proba_distribution: Beta(alpha + 1, beta + 1)
beta_shapes(alpha, beta) == <<RAdd(alpha, One), RAdd(beta, One)>>

\* BetaDistributionReparam.proba_distribution:
\* alpha = u * (k - 1); beta = (1 - u) * (k - 1); Beta(alpha + 1, beta + 1)
reparam_shapes(u, k) ==
    LET alpha == RMul(u, RSub(k, One))
        beta == RMul(RSub(One, u), RSub(k, One))
    IN  <<RAdd(alpha, One), RAdd(beta, One)>>

BetaInit ==
    /\ \/ /\ variant = "BetaDistributionReparam"
          /\ raw1 \in SigmoidOutputs
          /\ raw2 \in SoftplusOutputs
       \/ /\ variant = "BetaDistribution"
          /\ raw1 \in SoftplusOutputs
          /\ raw2 \in SoftplusOutputs
    /\ shape = <<>>
    /\ DistIdle
    /\ pc = "beta"
    /\ buf = <<>> /\ call = NoCall /\ data = NoData /\ nops = 0
    /\ LoopIdle /\ LossIdle

ProbaDistribution ==
    /\ pc = "beta"
    /\ shape' = IF variant = "BetaDistribution"
                THEN beta_shapes(raw1, raw2)
                ELSE reparam_shapes(raw1, raw2)
    /\ pc' = "beta_done"
    /\ UNCHANGED <<buf, call, data, nops, steps_per_epoch, max_ep_len, epochs,
                   eval_episodes, epoch, t, ep_ret, ep_len, train_episodes, eval_steps,
                   episode, et, ev_ep_ret, ev_ep_len, total_ep_return, reported,
                   ending, segments, early_done, updvars, ghostvars, lossvars, variant,
                   raw1, raw2,
                   obj, dcall>>

BetaNext == ProbaDistribution

SpecBeta == BetaInit /\ [][BetaNext]_vars

\* C10: for both variants, the two shape parameters proba_distribution
\* passes to Beta are strictly greater than 1.
C10_ShapesAboveOne ==
    pc = "beta_done" => (RLt(One, shape[1]) /\ RLt(One, shape[2]))

----------------------------------------------------------------------------
(* SpecDist: one Distribution object of distributions.py on one action     *)
(* dimension.  A client constructs an instance of one of the five variants *)
(* and then calls proba_distribution (with raw parameters its heads can    *)
(* produce), sample, mode, log_prob (of an action inside (-1, 1)) and      *)
(* entropy in any order.  result is "ok" when the call returns a tensor,   *)
(* "None" when it returns None, and the exception's name when it raises.   *)

Variants ==
    {"DiagGaussianDistribution", "SquashedDiagGaussianDistribution",
     "BetaDistribution", "BetaDistributionReparam", "BetaDistributionReparam2"}

\* largest action_dim the client constructs with
MaxActionDim == 2

\* mean_actions (an Identity head) and log_std (a parameter)
MeanActions == {Int2Rat(n) : n \in (-1) .. 1}
LogStds == {RNeg(Half), Zero}

\* __init__(action_dim): the object after construction, or the exception.
\* BetaDistributionReparam and BetaDistributionReparam2 call
\* super(BetaDistribution, self).__init__() on an object that is no
\* BetaDistribution, which raises TypeError before any field is set.
init_result(v) ==
    IF v \in {"BetaDistributionReparam", "BetaDistributionReparam2"}
    THEN "TypeError"
    ELSE "ok"

\* proba_distribution(raw parameters): the value bound to self.distribution,
\* or the exception.  BetaDistributionReparam2 reads the undefined name m.
proba_result(v) == IF v = "BetaDistributionReparam2" THEN "NameError" ELSE "ok"

proba_distribution(v, a, b) ==
    IF v = "BetaDistribution"
    THEN [kind |-> "Beta", p1 |-> beta_shapes(a, b)[1], p2 |-> beta_shapes(a, b)[2]]
    ELSE IF v = "BetaDistributionReparam"
    THEN [kind |-> "Beta", p1 |-> reparam_shapes(a, b)[1], p2 |-> reparam_shapes(a, b)[2]]
    \* Normal(mean_actions, th.exp(log_std)): the scale is kept as its log
    ELSE [kind |-> "Normal", p1 |-> a, p2 |-> b]

\* the raw parameters the heads of variant v produce
RawParams(v) ==
    IF v \in {"DiagGaussianDistribution", "SquashedDiagGaussianDistribution"}
    THEN MeanActions \X LogStds
    ELSE IF v = "BetaDistribution"
    THEN SoftplusOutputs \X SoftplusOutputs
    ELSE IF v = "BetaDistributionReparam"
    THEN SigmoidOutputs \X SoftplusOutputs
    ELSE SigmoidOutputs \X SigmoidOutputs

\* sample, mode, log_prob: each reads an attribute of self.distribution
\* first, which raises AttributeError on None
use_bound(self) ==
    IF self.distribution.kind = "None" THEN "AttributeError" ELSE "ok"

\* entropy: SquashedDiagGaussianDistribution returns None without reading
\* self.distribution; the others read self.distribution.entropy()
entropy_result(v, self) ==
    IF v = "SquashedDiagGaussianDistribution" THEN "None" ELSE use_bound(self)

DistInit ==
    /\ variant \in Variants
    /\ raw1 = Zero /\ raw2 = Zero /\ shape = <<>>
    /\ DistIdle
    /\ pc = "dist"
    /\ buf = <<>> /\ call = NoCall /\ data = NoData /\ nops = 0
    /\ LoopIdle /\ LossIdle

DistFrame ==
    UNCHANGED <<buf, call, data, nops, loopvars, updvars, ghostvars, lossvars,
                variant, raw1, raw2, shape>>

Construct(action_dim) ==
    /\ pc = "dist"
    /\ ~obj.exists
    /\ dcall.op = "none"
    /\ dcall' = [op |-> "__init__", result |-> init_result(variant)]
    /\ obj' = IF init_result(variant) = "ok"
              THEN [exists |-> TRUE, distribution |-> NoDistribution,
                    action_dim |-> action_dim]
              ELSE obj
    /\ DistFrame

BindParameters(a, b) ==
    /\ pc = "dist"
    /\ obj.exists
    /\ dcall' = [op |-> "proba_distribution", result |-> proba_result(variant)]
    /\ obj' = IF proba_result(variant) = "ok"
              THEN [obj EXCEPT !.distribution = proba_distribution(variant, a, b)]
              ELSE obj
    /\ DistFrame

Sample ==
    /\ pc = "dist"
    /\ obj.exists
    /\ dcall' = [op |-> "sample", result |-> use_bound(obj)]
    /\ UNCHANGED obj
    /\ DistFrame

Mode ==
    /\ pc = "dist"
    /\ obj.exists
    /\ dcall' = [op |-> "mode", result |-> use_bound(obj)]
    /\ UNCHANGED obj
    /\ DistFrame

LogProb ==
    /\ pc = "dist"
    /\ obj.exists
    /\ dcall' = [op |-> "log_prob", result |-> use_bound(obj)]
    /\ UNCHANGED obj
    /\ DistFrame

Entropy ==
    /\ pc = "dist"
    /\ obj.exists
    /\ dcall' = [op |-> "entropy", result |-> entropy_result(variant, obj)]
    /\ UNCHANGED obj
    /\ DistFrame

DistNext ==
    \/ \E n \in 1 .. MaxActionDim : Construct(n)
    \/ \E ab \in RawParams(variant) : BindParameters(ab[1], ab[2])
    \/ Sample
    \/ Mode
    \/ LogProb
    \/ Entropy

SpecDist == DistInit /\ [][DistNext]_vars

\* C11: every one of the five variants can be constructed; on an instance,
\* sample, mode, log_prob and entropy fail while distribution is unset and
\* complete without raising once proba_distribution has bound it, and
\* proba_distribution itself does not raise on valid raw parameters.
C11_DistributionProtocol ==
    /\ dcall.op = "__init__" => (dcall.result = "ok" /\ obj.exists)
    /\ dcall.op = "proba_distribution" =>
           (dcall.result = "ok" /\ obj.distribution.kind # "None")
    /\ dcall.op \in {"sample", "mode", "log_prob", "entropy"} =>
           IF obj.distribution.kind = "None"
           THEN dcall.result \notin {"ok", "None"}
           ELSE dcall.result \in {"ok", "None"}

====
